---- MODULE Spec2Model ----
(***************************************************************************)
(* A model of youtube_transcript_collector: the channel resolver           *)
(* (api.get_channel_id), the video enumerator (api.get_all_video_ids), the *)
(* metadata fetcher (api.get_video_metadata), the transcript fetcher and   *)
(* writer (transcript.download_transcript, transcript.save_transcript) and *)
(* the orchestrator (transcript.download_channel_transcripts).             *)
(*                                                                         *)
(* Python strings whose characters the code inspects (channel identifiers, *)
(* transcript texts) are sequences of one-character strings.  Video ids,   *)
(* which the code only compares and copies, are plain strings.             *)
(***************************************************************************)
EXTENDS Integers, Sequences, FiniteSets, TLC

VARIABLES
    pc,                  \* the position of the running function
    result,              \* what the called function returned or raised
    trace,               \* the calls made to the outside world, in order
    lookups,             \* the channel-lookup requests issued: their query parameter
    batches,             \* the id lists of the bulk video-details requests issued
    entry,               \* the function the caller called
    channels,            \* platform: the channel records the lookup endpoint knows
    pages,               \* platform: the upload listing, page by page
    identifier_arg,      \* get_channel_id: the identifier as passed by the caller
    identifier,          \* get_channel_id: the local `identifier` (reassigned)
    handle,              \* get_channel_id: the local `handle`
    channel_id,          \* argument channel_id
    max_results,         \* argument max_results (max_videos of the orchestrator)
    skip_existing,       \* argument skip_existing
    languages,           \* argument languages
    uploads_playlist_id, \* get_all_video_ids: the uploads playlist id
    video_ids,           \* the accumulated list of video ids
    next_page_token,     \* get_all_video_ids: the continuation token
    page_tokens,         \* the pageToken parameter of each listing request issued
    video_metadata,      \* the metadata map
    batch_i,             \* get_video_metadata: the loop variable i, 1-based
    stats,               \* download_channel_transcripts: the statistics dict
    idx,                 \* download_channel_transcripts: position of the for loop
    transcript_text,     \* the value download_transcript returned
    transcript,          \* download_transcript: what the provider's fetch gave
    disk                 \* the files of output_dir: path -> content

inputs == <<entry, channels, pages, identifier_arg, channel_id, max_results, skip_existing, languages>>
resolverVars == <<identifier, handle>>
enumVars == <<uploads_playlist_id, video_ids, next_page_token, page_tokens>>
metaVars == <<video_metadata, batch_i, batches>>
loopVars == <<stats, idx, transcript_text, transcript>>

vars == <<pc, result, trace, lookups, inputs, resolverVars, enumVars, metaVars, loopVars, disk>>

----------------------------------------------------------------------------
(* Python values *)

\* Python's None where the other values are sequences
None == <<"None">>

Running == [kind |-> "running"]
Returned(v) == [kind |-> "return", val |-> v]
Raised(e) == [kind |-> "raise", exc |-> e]

\* one call to the outside world: a request, a sleep, a file operation
Event(ev, of) == [ev |-> ev, of |-> of]

----------------------------------------------------------------------------
(* str methods used by get_channel_id *)

\* sub occurs in s at index i
IsAt(s, sub, i) ==
    /\ i >= 1
    /\ i + Len(sub) - 1 <= Len(s)
    /\ \A k \in 1..Len(sub) : s[i + k - 1] = sub[k]

\* s.find(sub), 1-based; 0 when sub does not occur
Find(s, sub) ==
    LET hits == {i \in 1..Len(s) : IsAt(s, sub, i)}
    IN  IF hits = {} THEN 0 ELSE CHOOSE i \in hits : \A j \in hits : i <= j

\* sub in s
Contains(s, sub) == Find(s, sub) # 0

\* s.startswith(p)
StartsWith(s, p) == IsAt(s, p, 1)

\* s.split(sep)[0]
SplitFirst(s, sep) ==
    LET i == Find(s, sep)
    IN  IF i = 0 THEN s ELSE SubSeq(s, 1, i - 1)

\* s.split(sep)[-1]: split scans left to right over non-overlapping separators
RECURSIVE SplitLast(_, _)
SplitLast(s, sep) ==
    LET i == Find(s, sep)
    IN  IF i = 0 THEN s ELSE SplitLast(SubSeq(s, i + Len(sep), Len(s)), sep)

----------------------------------------------------------------------------
(* string literals of api.py *)

UC == <<"U", "C">>
AT == <<"@">>
SLASH == <<"/">>
QMARK == <<"?">>
YOUTUBE_COM == <<"y", "o", "u", "t", "u", "b", "e", ".", "c", "o", "m">>
YOUTU_BE == <<"y", "o", "u", "t", "u", ".", "b", "e">>
SEG_CHANNEL == <<"/", "c", "h", "a", "n", "n", "e", "l", "/">>
SEG_C == <<"/", "c", "/">>
SEG_USER == <<"/", "u", "s", "e", "r", "/">>
SEG_AT == <<"/", "@">>

\* the length of a canonical channel id
ChannelIdLen == 24

----------------------------------------------------------------------------
(* the platform's channel-lookup endpoint and the identifiers tried *)

Rep(c, n) == [i \in 1..n |-> c]

ChanIdA == UC \o Rep("x", 22)
ChanIdB == UC \o Rep("y", 22)
NameAB == <<"a", "b">>
NoName == <<>>

\* a channel that has the handle @ab and no legacy username
ChannelA == [id |-> ChanIdA, handle |-> NameAB, username |-> NoName, uploads |-> "UU_A"]
\* a channel that has the legacy username ab and no handle
ChannelB == [id |-> ChanIdB, handle |-> NoName, username |-> NameAB, uploads |-> "UU_B"]

Registries == SUBSET {ChannelA, ChannelB}

Identifiers ==
    { ChanIdA,
      ChanIdB,
      UC \o Rep("x", 21),
      UC \o Rep("x", 23),
      UC \o NameAB,
      AT \o NameAB,
      NameAB,
      YOUTUBE_COM \o SEG_CHANNEL \o ChanIdA,
      YOUTUBE_COM \o SEG_CHANNEL \o ChanIdA \o QMARK \o NameAB,
      YOUTUBE_COM \o SEG_CHANNEL \o NameAB,
      YOUTUBE_COM \o SEG_C \o NameAB,
      YOUTUBE_COM \o SEG_USER \o NameAB \o SLASH \o <<"v">>,
      YOUTUBE_COM \o SEG_AT \o NameAB,
      YOUTU_BE \o SEG_AT \o NameAB \o QMARK \o <<"v">> }

\* the items of the response to GET channels?part=id&<by>=<value>
LookupItems(by, value) ==
    CASE by = "forHandle"   -> {c \in channels : value # NoName /\ c.handle = value}
      [] by = "forUsername" -> {c \in channels : value # NoName /\ c.username = value}
      [] by = "id"          -> {c \in channels : c.id = value}

\* data["items"][0]: the endpoint returns zero or one matching channel
FirstItem(items) == CHOOSE c \in items : TRUE

----------------------------------------------------------------------------
(* api.get_channel_id *)

\* the mutated test: the length compared is off by one
IsChannelId_OffByOne(s) == StartsWith(s, UC) /\ Len(s) = ChannelIdLen + 1

\* identifier.startswith("UC") and len(identifier) == 24
IsChannelId(s) == StartsWith(s, UC) /\ Len(s) = ChannelIdLen

\* X.split(seg)[-1].split("?")[0].split("/")[0]
Segment(s, seg) == SplitFirst(SplitFirst(SplitLast(s, seg), QMARK), SLASH)

\* the URL branch: either it returns a channel id, or it rewrites identifier
ExtractFromUrl(s) ==
    IF ~(Contains(s, YOUTUBE_COM) \/ Contains(s, YOUTU_BE))
    THEN [returns |-> FALSE, value |-> s]
    ELSE IF Contains(s, SEG_CHANNEL) /\ IsChannelId(Segment(s, SEG_CHANNEL))
    THEN [returns |-> TRUE, value |-> Segment(s, SEG_CHANNEL)]
    ELSE IF Contains(s, SEG_C)
    THEN [returns |-> FALSE, value |-> Segment(s, SEG_C)]
    ELSE IF Contains(s, SEG_USER)
    THEN [returns |-> FALSE, value |-> Segment(s, SEG_USER)]
    ELSE IF Contains(s, SEG_AT)
    THEN [returns |-> FALSE, value |-> AT \o Segment(s, SEG_AT)]
    ELSE [returns |-> FALSE, value |-> s]

\* handle = identifier[1:] if identifier.startswith("@") else identifier
HandleOf(s) == IF StartsWith(s, AT) THEN SubSeq(s, 2, Len(s)) ELSE s

\* the first lookup: forHandle for a handle-shaped identifier, else forUsername
FirstParams(s) ==
    IF StartsWith(s, AT)
    THEN [by |-> "forHandle", value |-> HandleOf(s)]
    ELSE [by |-> "forUsername", value |-> s]

\* the second lookup, issued only for a handle-shaped identifier
SecondParams(s) == [by |-> "forUsername", value |-> HandleOf(s)]

\* lines 30-68: the as-is return, the URL branch, the first request's parameters
GciStart ==
    /\ pc = "get_channel_id"
    /\ IF IsChannelId(identifier)
       THEN /\ result' = Returned(identifier)
            /\ pc' = "done"
            /\ UNCHANGED <<identifier, handle>>
       ELSE LET e == ExtractFromUrl(identifier)
            IN  IF e.returns
                THEN /\ result' = Returned(e.value)
                     /\ pc' = "done"
                     /\ UNCHANGED <<identifier, handle>>
                ELSE /\ identifier' = e.value
                     /\ handle' = HandleOf(e.value)
                     /\ pc' = "gci_request1"
                     /\ UNCHANGED result
    /\ UNCHANGED <<trace, lookups, inputs, enumVars, metaVars, loopVars, disk>>

\* lines 70-96: the first request; its answer returns, retries or raises
GciRequest1 ==
    /\ pc = "gci_request1"
    /\ lookups' = Append(lookups, FirstParams(identifier))
    /\ \E ok \in BOOLEAN :
         IF ~ok
         THEN \* requests.get or raise_for_status raises
              /\ trace' = Append(trace, Event("request", "channels"))
              /\ result' = Raised("RequestException")
              /\ pc' = "done"
         ELSE LET items == LookupItems(FirstParams(identifier).by, FirstParams(identifier).value)
              IN  /\ trace' = trace \o <<Event("request", "channels"), Event("sleep", "delay")>>
                  /\ IF items # {}
                     THEN result' = Returned(FirstItem(items).id) /\ pc' = "done"
                     ELSE IF StartsWith(identifier, AT)
                     THEN result' = result /\ pc' = "gci_request2"
                     ELSE result' = Raised("ValueError") /\ pc' = "done"
    /\ UNCHANGED <<inputs, resolverVars, enumVars, metaVars, loopVars, disk>>

\* lines 84-96: the retry by username of a handle-shaped identifier
GciRequest2 ==
    /\ pc = "gci_request2"
    /\ lookups' = Append(lookups, SecondParams(identifier))
    /\ \E ok \in BOOLEAN :
         IF ~ok
         THEN /\ trace' = Append(trace, Event("request", "channels"))
              /\ result' = Raised("RequestException")
              /\ pc' = "done"
         ELSE LET items == LookupItems("forUsername", handle)
              IN  /\ trace' = trace \o <<Event("request", "channels"), Event("sleep", "delay")>>
                  /\ pc' = "done"
                  /\ IF items # {}
                     THEN result' = Returned(FirstItem(items).id)
                     ELSE result' = Raised("ValueError")
    /\ UNCHANGED <<inputs, resolverVars, enumVars, metaVars, loopVars, disk>>

----------------------------------------------------------------------------
(* the platform's upload listing *)

Videos == {"A", "B", "C"}

\* the longest upload listing tried
MaxVideos == 3
\* the most items the platform puts on one page of the listing
MaxPageLen == 2
\* the most pages a listing is cut into by the standalone enumeration
MaxPages == 3
\* the largest max_results tried
MaxLimit == 4

\* max_results = None
NoLimit == -1
\* next_page_token = None
NoToken == 0

Min(a, b) == IF a <= b THEN a ELSE b

SeqsUpTo(S, n) == UNION {[1..k -> S] : k \in 0..n}

Listings == SeqsUpTo(Videos, MaxVideos)

RECURSIVE SumTo(_, _)
SumTo(sizes, k) == IF k = 0 THEN 0 ELSE sizes[k] + SumTo(sizes, k - 1)

\* the listing cut into pages of the given sizes
Cut(listing, sizes) ==
    [p \in 1..Len(sizes) |-> SubSeq(listing, SumTo(sizes, p - 1) + 1, SumTo(sizes, p))]

\* every way the platform may page a listing: at least one page, possibly empty ones
Layouts(listing) ==
    {Cut(listing, sizes) : sizes \in
        {z \in UNION {[1..k -> 0..MaxPageLen] : k \in 1..MaxPages} :
            SumTo(z, Len(z)) = Len(listing)}}

\* the listing in full pages of MaxPageLen, the last one shorter
FullPages(listing) ==
    LET n == IF Len(listing) = 0 THEN 1 ELSE (Len(listing) + MaxPageLen - 1) \div MaxPageLen
    IN  [p \in 1..n |-> SubSeq(listing, (p - 1) * MaxPageLen + 1, Min(p * MaxPageLen, Len(listing)))]

Limits == {NoLimit} \cup 0..MaxLimit

----------------------------------------------------------------------------
(* api.get_channel_uploads_playlist_id and api.get_all_video_ids *)

\* the mutated lookup parameter: the channel reference resolved first
UploadsLookupParams_Resolved(cid) ==
    [by |-> "id",
     value |-> IF LookupItems("forHandle", HandleOf(cid)) # {}
               THEN FirstItem(LookupItems("forHandle", HandleOf(cid))).id
               ELSE cid]

\* params = {"part": "contentDetails", "id": channel_id, "key": api_key}
UploadsLookupParams(cid) == [by |-> "id", value |-> cid]

\* max_results and len(video_ids) >= max_results: None and 0 are falsy
LimitReached(ids, m) == m # NoLimit /\ m # 0 /\ Len(ids) >= m

\* the for loop over one page's items: append, then test the limit
RECURSIVE TakeItems(_, _, _)
TakeItems(ids, items, m) ==
    IF items = <<>>
    THEN [ids |-> ids, returns |-> FALSE]
    ELSE LET ids2 == Append(ids, Head(items))
         IN  IF LimitReached(ids2, m)
             THEN [ids |-> SubSeq(ids2, 1, m), returns |-> TRUE]
             ELSE TakeItems(ids2, Tail(items), m)

\* the response to a playlistItems request carrying the given token
PageData(token) ==
    LET p == IF token = NoToken THEN 1 ELSE token
    IN  [items |-> pages[p],
         nextPageToken |-> IF p < Len(pages) THEN p + 1 ELSE NoToken]

\* the mutated lookup: no delay after the request
GetUploadsPlaylistId_NoDelay ==
    /\ pc = "get_all_video_ids"
    /\ lookups' = Append(lookups, UploadsLookupParams(channel_id))
    /\ \/ \* the request is answered
          LET items == LookupItems("id", UploadsLookupParams(channel_id).value)
          IN  /\ trace' = Append(trace, Event("request", "channels"))
              /\ IF items = {}
                 THEN /\ result' = Raised("ValueError")
                      /\ pc' = "done"
                      /\ UNCHANGED enumVars
                 ELSE /\ uploads_playlist_id' = FirstItem(items).uploads
                      /\ video_ids' = <<>>
                      /\ next_page_token' = NoToken
                      /\ UNCHANGED page_tokens
                      /\ pc' = "page_request"
                      /\ UNCHANGED result
       \/ \* requests.get or raise_for_status raises
          /\ trace' = Append(trace, Event("request", "channels"))
          /\ result' = Raised("RequestException")
          /\ pc' = "done"
          /\ UNCHANGED enumVars
    /\ UNCHANGED <<inputs, resolverVars, metaVars, loopVars, disk>>

\* get_channel_uploads_playlist_id, lines 117-133, then lines 159-161
GetUploadsPlaylistId ==
    /\ pc = "get_all_video_ids"
    /\ lookups' = Append(lookups, UploadsLookupParams(channel_id))
    /\ \/ \* the request is answered
          LET items == LookupItems("id", UploadsLookupParams(channel_id).value)
          IN  /\ trace' = trace \o <<Event("request", "channels"), Event("sleep", "api_delay")>>
              /\ IF items = {}
                 THEN /\ result' = Raised("ValueError")
                      /\ pc' = "done"
                      /\ UNCHANGED enumVars
                 ELSE /\ uploads_playlist_id' = FirstItem(items).uploads
                      /\ video_ids' = <<>>
                      /\ next_page_token' = NoToken
                      /\ UNCHANGED page_tokens
                      /\ pc' = "page_request"
                      /\ UNCHANGED result
       \/ \* requests.get or raise_for_status raises
          /\ trace' = Append(trace, Event("request", "channels"))
          /\ result' = Raised("RequestException")
          /\ pc' = "done"
          /\ UNCHANGED enumVars
    /\ UNCHANGED <<inputs, resolverVars, metaVars, loopVars, disk>>

\* the mutated turn: the loop is left after the first page whatever the token
PageRequest_NoPaging ==
    /\ pc = "page_request"
    /\ page_tokens' = Append(page_tokens, next_page_token)
    /\ \E ok \in BOOLEAN :
         IF ~ok
         THEN /\ trace' = Append(trace, Event("request", "playlistItems"))
              /\ result' = Raised("RequestException")
              /\ pc' = "done"
              /\ UNCHANGED <<uploads_playlist_id, video_ids, next_page_token>>
         ELSE LET data == PageData(next_page_token)
                  t == TakeItems(video_ids, data.items, max_results)
              IN  /\ trace' = trace \o <<Event("request", "playlistItems"), Event("sleep", "api_delay")>>
                  /\ video_ids' = t.ids
                  /\ next_page_token' = IF t.returns THEN next_page_token ELSE data.nextPageToken
                  /\ UNCHANGED uploads_playlist_id
                  /\ IF entry = "get_all_video_ids"
                     THEN pc' = "done" /\ result' = Returned(t.ids)
                     ELSE pc' = "get_video_metadata" /\ UNCHANGED result
    /\ UNCHANGED <<lookups, inputs, resolverVars, metaVars, loopVars, disk>>

\* one turn of the while loop, lines 163-196; params["pageToken"] is set from
\* next_page_token when there is one
PageRequest ==
    /\ pc = "page_request"
    /\ page_tokens' = Append(page_tokens, next_page_token)
    /\ \E ok \in BOOLEAN :
         IF ~ok
         THEN /\ trace' = Append(trace, Event("request", "playlistItems"))
              /\ result' = Raised("RequestException")
              /\ pc' = "done"
              /\ UNCHANGED <<uploads_playlist_id, video_ids, next_page_token>>
         ELSE LET data == PageData(next_page_token)
                  t == TakeItems(video_ids, data.items, max_results)
                  returns == t.returns \/ data.nextPageToken = NoToken
              IN  /\ trace' = trace \o <<Event("request", "playlistItems"), Event("sleep", "api_delay")>>
                  /\ video_ids' = t.ids
                  /\ next_page_token' = IF t.returns THEN next_page_token ELSE data.nextPageToken
                  /\ UNCHANGED uploads_playlist_id
                  /\ IF ~returns
                     THEN pc' = "page_request" /\ UNCHANGED result
                     ELSE IF entry = "get_all_video_ids"
                     THEN pc' = "done" /\ result' = Returned(t.ids)
                     ELSE pc' = "get_video_metadata" /\ UNCHANGED result
    /\ UNCHANGED <<lookups, inputs, resolverVars, metaVars, loopVars, disk>>

----------------------------------------------------------------------------
(* api.get_video_metadata *)

batch_size == 50

EmptyDict == <<>>

\* d.get(k, default)
Get(d, k, default) == IF k \in DOMAIN d THEN d[k] ELSE default

\* the platform's video records: A in full, C with no snippet and no statistics,
\* B not returned (private or deleted)
VideoItems ==
    ("A" :> [id |-> "A",
             snippet |-> [title |-> <<"T">>, description |-> <<"d">>,
                          publishedAt |-> <<"p">>, channelTitle |-> <<"c">>],
             contentDetails |-> [duration |-> <<"P">>],
             statistics |-> [viewCount |-> <<"7">>, likeCount |-> <<"1">>]])
    @@ ("C" :> [id |-> "C", contentDetails |-> [duration |-> <<"P">>]])

UNKNOWN_TITLE ==
    <<"U", "n", "k", "n", "o", "w", "n", " ", "T", "i", "t", "l", "e">>
ZERO == <<"0">>
EMPTY == <<>>

\* lines 245-257: the record built from one returned item
MetadataOf(item) ==
    LET snippet == Get(item, "snippet", EmptyDict)
        content_details == Get(item, "contentDetails", EmptyDict)
        statistics == Get(item, "statistics", EmptyDict)
    IN  [title |-> Get(snippet, "title", UNKNOWN_TITLE),
         description |-> Get(snippet, "description", EMPTY),
         publishedAt |-> Get(snippet, "publishedAt", EMPTY),
         channelTitle |-> Get(snippet, "channelTitle", EMPTY),
         duration |-> Get(content_details, "duration", EMPTY),
         viewCount |-> Get(statistics, "viewCount", ZERO),
         likeCount |-> Get(statistics, "likeCount", ZERO)]

\* the mutated slice: one identifier short of batch_size
Batch_OneShort(ids, i) == SubSeq(ids, i, Min(i + batch_size - 2, Len(ids)))

\* video_ids[i : i + batch_size], i 1-based
Batch(ids, i) == SubSeq(ids, i, Min(i + batch_size - 1, Len(ids)))

\* the videos of a batch the platform returns an item for
Present(batch) == {batch[k] : k \in 1..Len(batch)} \cap DOMAIN VideoItems

\* the mutated turn: a failed batch request is swallowed and the loop goes on
MetadataBatch_Swallows ==
    /\ pc = "get_video_metadata"
    /\ batch_i <= Len(video_ids)
    /\ batches' = Append(batches, Batch(video_ids, batch_i))
    /\ \E ok \in BOOLEAN :
         IF ~ok
         THEN /\ trace' = Append(trace, Event("request", "videos"))
              /\ batch_i' = batch_i + batch_size
              /\ UNCHANGED <<pc, result, video_metadata>>
         ELSE LET present == Present(Batch(video_ids, batch_i))
              IN  /\ trace' = trace \o <<Event("request", "videos"), Event("sleep", "api_delay")>>
                  /\ video_metadata' =
                        [v \in DOMAIN video_metadata \cup present |->
                            IF v \in present THEN MetadataOf(VideoItems[v])
                            ELSE video_metadata[v]]
                  /\ batch_i' = batch_i + batch_size
                  /\ pc' = "get_video_metadata"
                  /\ UNCHANGED result
    /\ UNCHANGED <<lookups, inputs, resolverVars, enumVars, loopVars, disk>>

\* one turn of the for loop over the batches, lines 226-257
MetadataBatch ==
    /\ pc = "get_video_metadata"
    /\ batch_i <= Len(video_ids)
    /\ batches' = Append(batches, Batch(video_ids, batch_i))
    /\ \E ok \in BOOLEAN :
         IF ~ok
         THEN /\ trace' = Append(trace, Event("request", "videos"))
              /\ result' = Raised("RequestException")
              /\ pc' = "done"
              /\ UNCHANGED <<video_metadata, batch_i>>
         ELSE LET present == Present(Batch(video_ids, batch_i))
              IN  /\ trace' = trace \o <<Event("request", "videos"), Event("sleep", "api_delay")>>
                  /\ video_metadata' =
                        [v \in DOMAIN video_metadata \cup present |->
                            IF v \in present THEN MetadataOf(VideoItems[v])
                            ELSE video_metadata[v]]
                  /\ batch_i' = batch_i + batch_size
                  /\ pc' = "get_video_metadata"
                  /\ UNCHANGED result
    /\ UNCHANGED <<lookups, inputs, resolverVars, enumVars, loopVars, disk>>

\* the for loop ends and get_video_metadata returns, line 259; in a run of the
\* orchestrator the statistics are built next, transcript.py lines 153-178
MetadataReturn ==
    /\ pc = "get_video_metadata"
    /\ batch_i > Len(video_ids)
    /\ IF entry = "get_video_metadata"
       THEN /\ result' = Returned(video_metadata)
            /\ pc' = "done"
            /\ UNCHANGED <<stats, idx>>
       ELSE /\ stats' = [total_videos |-> Len(video_ids), downloaded |-> 0, skipped |-> 0,
                         failed |-> 0, failed_videos |-> <<>>]
            /\ idx' = 1
            /\ pc' = "loop"
            /\ UNCHANGED result
    /\ UNCHANGED <<trace, lookups, inputs, resolverVars, enumVars, metaVars,
                   transcript_text, transcript, disk>>

----------------------------------------------------------------------------
(* transcript.download_transcript *)

NL == <<"\n">>

\* the most caption entries of a track tried
MaxEntries == 2

EntryTexts == {<<>>, <<"a">>, <<"b">>}

ProviderErrors ==
    {"NoTranscriptFound", "TranscriptsDisabled", "RequestException", "ParseError",
     "VideoUnavailable"}

\* download_transcript has not been called
NoFetch == [ok |-> FALSE, error |-> "not fetched"]

Fetched(entries) == [ok |-> TRUE, entries |-> entries]
FetchRaises(e) == [ok |-> FALSE, error |-> e]

\* what ytt_api.fetch may do: return the ordered entries, or raise
ProviderOutcomes ==
    {Fetched(es) : es \in SeqsUpTo(EntryTexts, MaxEntries)}
        \cup {FetchRaises(e) : e \in ProviderErrors}

\* the outcomes tried inside a run of the orchestrator, in the order tried
RunOutcomes ==
    <<FetchRaises("VideoUnavailable"), Fetched(<<<<"a">>, <<"b">>>>), Fetched(<<>>)>>

LanguageLists == {None, <<>>, <<"en">>, <<"en", "es">>}

\* sep.join(texts)
RECURSIVE Join(_, _)
Join(texts, sep) ==
    IF texts = <<>> THEN <<>>
    ELSE IF Len(texts) = 1 THEN texts[1]
    ELSE texts[1] \o sep \o Join(Tail(texts), sep)

\* the mutated handler: only the caption errors are caught
DownloadTranscript_NarrowCatch(outcome) ==
    IF outcome.ok THEN Returned(Join(outcome.entries, NL))
    ELSE IF outcome.error \in {"NoTranscriptFound", "TranscriptsDisabled"}
    THEN Returned(None)
    ELSE Raised(outcome.error)

\* lines 38-53: the joined text, or None on any exception
DownloadTranscript(outcome) ==
    IF outcome.ok THEN Returned(Join(outcome.entries, NL)) ELSE Returned(None)

\* languages is truthy: ytt_api.fetch(video_id, languages=languages)
FetchEvent(video_id, langs) ==
    IF langs # None /\ langs # <<>>
    THEN Event("fetch_languages", video_id)
    ELSE Event("fetch", video_id)

\* a call download_transcript(video_id, languages) by the caller itself
DownloadTranscriptCall ==
    /\ pc = "download_transcript"
    /\ \E v \in Videos, outcome \in ProviderOutcomes :
         /\ trace' = Append(trace, FetchEvent(v, languages))
         /\ transcript' = outcome
         /\ result' = DownloadTranscript(outcome)
         /\ pc' = "done"
    /\ UNCHANGED <<lookups, inputs, resolverVars, enumVars, metaVars, stats, idx,
                   transcript_text, disk>>

----------------------------------------------------------------------------
(* transcript.save_transcript *)

LIT_H1 ==
    <<"#", " ">>
LIT_NLNL ==
    <<"\n", "\n">>
LIT_VIDEO_ID ==
    <<"*", "*", "V", "i", "d", "e", "o", " ", "I", "D", ":", "*", "*", " ">>
LIT_VIDEO_URL ==
    <<"*", "*", "V", "i", "d", "e", "o", " ", "U", "R", "L", ":", "*", "*", " ", "h", "t", "t", "p", "s", ":", "/", "/", "w", "w", "w", ".", "y", "o", "u", "t", "u", "b", "e", ".", "c", "o", "m", "/", "w", "a", "t", "c", "h", "?", "v", "=">>
LIT_CHANNEL ==
    <<"*", "*", "C", "h", "a", "n", "n", "e", "l", ":", "*", "*", " ">>
LIT_PUBLISHED ==
    <<"*", "*", "P", "u", "b", "l", "i", "s", "h", "e", "d", ":", "*", "*", " ">>
LIT_DURATION ==
    <<"*", "*", "D", "u", "r", "a", "t", "i", "o", "n", ":", "*", "*", " ">>
LIT_VIEWS ==
    <<"*", "*", "V", "i", "e", "w", "s", ":", "*", "*", " ">>
LIT_DESCRIPTION ==
    <<"#", "#", " ", "D", "e", "s", "c", "r", "i", "p", "t", "i", "o", "n", "\n", "\n">>
LIT_RULE ==
    <<"-", "-", "-", "\n", "\n">>
LIT_TRANSCRIPT ==
    <<"#", "#", " ", "T", "r", "a", "n", "s", "c", "r", "i", "p", "t", "\n", "\n">>

\* the characters of a video id
Chars(video_id) == <<video_id>>

\* the mutated path: another extension
FilePath_Txt(video_id) == video_id \o ".txt"

\* output_path / f"{video_id}.md"
FilePath(video_id) == video_id \o ".md"

\* a dict is truthy when it has a key; a str when it has a character
TruthyDict(d) == DOMAIN d # {}
TruthyStr(s) == s # None /\ s # <<>>

\* the mutated title: the video id whatever the metadata
TitleOf_IgnoresMetadata(video_id, metadata) == Chars(video_id)

\* metadata.get("title", video_id) if metadata else video_id
TitleOf(video_id, metadata) ==
    IF TruthyDict(metadata) THEN Get(metadata, "title", Chars(video_id)) ELSE Chars(video_id)

\* if metadata.get(k): f.write(f"{label}{metadata[k]}\n\n")
Field(metadata, k, label) ==
    IF TruthyStr(Get(metadata, k, None)) THEN label \o metadata[k] \o LIT_NLNL ELSE <<>>

\* lines 83-101: everything written before the transcript text
Header(video_id, metadata) ==
    LIT_H1 \o TitleOf(video_id, metadata) \o LIT_NLNL
    \o LIT_VIDEO_ID \o Chars(video_id) \o LIT_NLNL
    \o LIT_VIDEO_URL \o Chars(video_id) \o LIT_NLNL
    \o (IF TruthyDict(metadata)
        THEN Field(metadata, "channelTitle", LIT_CHANNEL)
             \o Field(metadata, "publishedAt", LIT_PUBLISHED)
             \o Field(metadata, "duration", LIT_DURATION)
             \o Field(metadata, "viewCount", LIT_VIEWS)
             \o Field(metadata, "description", LIT_DESCRIPTION)
        ELSE <<>>)
    \o LIT_RULE
    \o LIT_TRANSCRIPT

\* the mutated rendering: a newline is written after the text
RenderDocument_TrailingNewline(video_id, text, metadata) ==
    Header(video_id, metadata) \o text \o <<"\n">>

\* lines 79-102: the content of the file after the with block
RenderDocument(video_id, text, metadata) == Header(video_id, metadata) \o text

\* a document left by an earlier run
OldDoc == <<"o", "l", "d">>

\* the files a failed write may leave: open(path, "w") has truncated the file,
\* and none or some of the buffered text reached it
PartialDocs(video_id, text, metadata) ==
    {<<>>, Header(video_id, metadata)}

Exists(path) == path \in DOMAIN disk

\* the mutated write: the directory is left with the written file alone
WriteFile_DropsOthers(path, content) == [q \in {path} |-> content]

\* disk with the file at path replaced by content
WriteFile(path, content) ==
    [q \in DOMAIN disk \cup {path} |-> IF q = path THEN content ELSE disk[q]]

\* save_transcript(video_id, transcript_text, output_dir, metadata) called on its
\* own, lines 74-104; the arguments are video_ids[1], transcript_text and the
\* record video_metadata holds for the video, none standing for metadata=None
SaveTranscriptCall ==
    /\ pc = "save_transcript"
    /\ LET v == video_ids[1]
           metadata == Get(video_metadata, v, EmptyDict)
           doc == RenderDocument(v, transcript_text, metadata)
       IN  \E io \in {"ok", "open_raises", "write_raises"} :
             CASE io = "ok" ->
                    /\ disk' = WriteFile(FilePath(v), doc)
                    /\ result' = Returned(FilePath(v))
               [] io = "open_raises" ->
                    /\ result' = Raised("OSError")
                    /\ UNCHANGED disk
               [] io = "write_raises" ->
                    /\ \E left \in PartialDocs(v, transcript_text, metadata) :
                         disk' = WriteFile(FilePath(v), left)
                    /\ result' = Raised("OSError")
    /\ trace' = trace \o <<Event("mkdir", "output_dir"), Event("write", video_ids[1])>>
    /\ pc' = "done"
    /\ UNCHANGED <<lookups, inputs, resolverVars, enumVars, metaVars, loopVars>>

----------------------------------------------------------------------------
(* transcript.download_channel_transcripts *)

\* the mutated fallback: a record with the default title instead of the empty dict
MetadataFor_DefaultTitle(video_id) ==
    Get(video_metadata, video_id, [title |-> UNKNOWN_TITLE])

\* video_metadata.get(video_id, {})
MetadataFor(video_id) == Get(video_metadata, video_id, EmptyDict)

\* `if transcript_text:`: None and the empty string are falsy
Saves(text) == TruthyStr(text)

\* the mutated test: the file looked for is not the file save_transcript writes
Skips_OtherFile(video_id) == skip_existing /\ Exists(video_id \o ".txt")

\* the mutated test: the existence test is negated
Skips_Inverted(video_id) == skip_existing /\ ~Exists(FilePath(video_id))

\* `if skip_existing and file_path.exists():`
Skips(video_id) == skip_existing /\ Exists(FilePath(video_id))

\* lines 138-147: mkdir, then the call of get_all_video_ids
DctStart ==
    /\ pc = "download_channel_transcripts"
    /\ trace' = Append(trace, Event("mkdir", "output_dir"))
    /\ \E ok \in BOOLEAN :
         IF ok
         THEN pc' = "get_all_video_ids" /\ UNCHANGED result
         ELSE pc' = "done" /\ result' = Raised("OSError")
    /\ UNCHANGED <<lookups, inputs, resolverVars, enumVars, metaVars, loopVars, disk>>

\* the mutated branch: the `continue` is missing, the video is fetched all the same
LoopSkip_NoContinue ==
    /\ pc = "loop"
    /\ idx <= Len(video_ids)
    /\ Skips(video_ids[idx])
    /\ stats' = [stats EXCEPT !.skipped = @ + 1]
    /\ \E k \in DOMAIN RunOutcomes :
         /\ trace' = trace \o <<Event("skipping", video_ids[idx]),
                                Event("downloading", video_ids[idx]),
                                FetchEvent(video_ids[idx], languages)>>
         /\ transcript' = RunOutcomes[k]
         /\ transcript_text' = DownloadTranscript(RunOutcomes[k]).val
         /\ pc' = "sleep"
    /\ UNCHANGED <<result, lookups, inputs, resolverVars, enumVars, metaVars, idx, disk>>

\* lines 179-192: the file exists and skip_existing is set
LoopSkip ==
    /\ pc = "loop"
    /\ idx <= Len(video_ids)
    /\ Skips(video_ids[idx])
    /\ trace' = Append(trace, Event("skipping", video_ids[idx]))
    /\ stats' = [stats EXCEPT !.skipped = @ + 1]
    /\ idx' = idx + 1
    /\ UNCHANGED <<pc, result, lookups, inputs, resolverVars, enumVars, metaVars,
                   transcript_text, transcript, disk>>

\* the mutated call: a fetch that gave nothing is recorded without the delay
LoopFetch_NoDelayOnFailure ==
    /\ pc = "loop"
    /\ idx <= Len(video_ids)
    /\ ~Skips(video_ids[idx])
    /\ \E k \in DOMAIN RunOutcomes :
         LET outcome == RunOutcomes[k]
             r == DownloadTranscript(outcome)
         IN  /\ trace' = trace \o <<Event("downloading", video_ids[idx]),
                                    FetchEvent(video_ids[idx], languages)>>
             /\ transcript' = outcome
             /\ IF r.kind = "raise"
                THEN pc' = "done" /\ result' = r /\ UNCHANGED transcript_text
                ELSE /\ pc' = IF r.val = None THEN "record" ELSE "sleep"
                     /\ transcript_text' = r.val
                     /\ UNCHANGED result
    /\ UNCHANGED <<lookups, inputs, resolverVars, enumVars, metaVars, stats, idx, disk>>

\* lines 194-198: the call of download_transcript
LoopFetch ==
    /\ pc = "loop"
    /\ idx <= Len(video_ids)
    /\ ~Skips(video_ids[idx])
    /\ \E k \in DOMAIN RunOutcomes :
         LET outcome == RunOutcomes[k]
             r == DownloadTranscript(outcome)
         IN  /\ trace' = trace \o <<Event("downloading", video_ids[idx]),
                                    FetchEvent(video_ids[idx], languages)>>
             /\ transcript' = outcome
             /\ IF r.kind = "raise"
                THEN pc' = "done" /\ result' = r /\ UNCHANGED transcript_text
                ELSE pc' = "sleep" /\ transcript_text' = r.val /\ UNCHANGED result
    /\ UNCHANGED <<lookups, inputs, resolverVars, enumVars, metaVars, stats, idx, disk>>

\* line 201: time.sleep(transcript_delay)
LoopSleep ==
    /\ pc = "sleep"
    /\ trace' = Append(trace, Event("sleep", "transcript_delay"))
    /\ pc' = "record"
    /\ UNCHANGED <<result, lookups, inputs, resolverVars, enumVars, metaVars, loopVars, disk>>

\* the mutated branch: an error of the file system is caught, the video is
\* recorded as failed and the loop goes on
LoopSave_CatchesOSError ==
    /\ pc = "record"
    /\ Saves(transcript_text)
    /\ LET v == video_ids[idx]
           doc == RenderDocument(v, transcript_text, MetadataFor(v))
       IN  \E io \in {"ok", "open_raises", "write_raises"} :
             CASE io = "ok" ->
                    /\ disk' = WriteFile(FilePath(v), doc)
                    /\ trace' = trace \o <<Event("mkdir", "output_dir"), Event("write", v),
                                           Event("saved", v)>>
                    /\ stats' = [stats EXCEPT !.downloaded = @ + 1]
               [] io = "open_raises" ->
                    /\ trace' = trace \o <<Event("mkdir", "output_dir"), Event("write", v),
                                           Event("failed", v)>>
                    /\ stats' = [stats EXCEPT !.failed = @ + 1,
                                              !.failed_videos = Append(@, v)]
                    /\ UNCHANGED disk
               [] io = "write_raises" ->
                    /\ \E left \in PartialDocs(v, transcript_text, MetadataFor(v)) :
                         disk' = WriteFile(FilePath(v), left)
                    /\ trace' = trace \o <<Event("mkdir", "output_dir"), Event("write", v),
                                           Event("failed", v)>>
                    /\ stats' = [stats EXCEPT !.failed = @ + 1,
                                              !.failed_videos = Append(@, v)]
    /\ idx' = idx + 1
    /\ pc' = "loop"
    /\ UNCHANGED <<result, lookups, inputs, resolverVars, enumVars, metaVars, transcript_text,
                   transcript>>

\* lines 203-211 and 220: save_transcript, which may raise, then downloaded += 1
LoopSave ==
    /\ pc = "record"
    /\ Saves(transcript_text)
    /\ LET v == video_ids[idx]
           doc == RenderDocument(v, transcript_text, MetadataFor(v))
       IN  \E io \in {"ok", "open_raises", "write_raises"} :
             CASE io = "ok" ->
                    /\ disk' = WriteFile(FilePath(v), doc)
                    /\ trace' = trace \o <<Event("mkdir", "output_dir"), Event("write", v),
                                           Event("saved", v)>>
                    /\ stats' = [stats EXCEPT !.downloaded = @ + 1]
                    /\ idx' = idx + 1
                    /\ pc' = "loop"
                    /\ UNCHANGED result
               [] io = "open_raises" ->
                    /\ trace' = trace \o <<Event("mkdir", "output_dir"), Event("write", v)>>
                    /\ result' = Raised("OSError")
                    /\ pc' = "done"
                    /\ UNCHANGED <<disk, stats, idx>>
               [] io = "write_raises" ->
                    /\ \E left \in PartialDocs(v, transcript_text, MetadataFor(v)) :
                         disk' = WriteFile(FilePath(v), left)
                    /\ trace' = trace \o <<Event("mkdir", "output_dir"), Event("write", v)>>
                    /\ result' = Raised("OSError")
                    /\ pc' = "done"
                    /\ UNCHANGED <<stats, idx>>
    /\ UNCHANGED <<lookups, inputs, resolverVars, enumVars, metaVars, transcript_text,
                   transcript>>

\* the mutated branch: a failure leaves the for loop
LoopFail_Breaks ==
    /\ pc = "record"
    /\ ~Saves(transcript_text)
    /\ trace' = Append(trace, Event("failed", video_ids[idx]))
    /\ stats' = [stats EXCEPT !.failed = @ + 1,
                              !.failed_videos = Append(@, video_ids[idx])]
    /\ idx' = Len(video_ids) + 1
    /\ pc' = "loop"
    /\ UNCHANGED <<result, lookups, inputs, resolverVars, enumVars, metaVars,
                   transcript_text, transcript, disk>>

\* lines 212-220: failed += 1 and failed_videos.append(video_id)
LoopFail ==
    /\ pc = "record"
    /\ ~Saves(transcript_text)
    /\ trace' = Append(trace, Event("failed", video_ids[idx]))
    /\ stats' = [stats EXCEPT !.failed = @ + 1,
                              !.failed_videos = Append(@, video_ids[idx])]
    /\ idx' = idx + 1
    /\ pc' = "loop"
    /\ UNCHANGED <<result, lookups, inputs, resolverVars, enumVars, metaVars,
                   transcript_text, transcript, disk>>

\* lines 222-247: the for loop is over, the summary is printed, stats returned
LoopEnd ==
    /\ pc = "loop"
    /\ idx > Len(video_ids)
    /\ result' = Returned(stats)
    /\ pc' = "done"
    /\ UNCHANGED <<trace, lookups, inputs, resolverVars, enumVars, metaVars, loopVars, disk>>

----------------------------------------------------------------------------
(* the calls checked *)

\* nothing has run yet
Fresh ==
    /\ result = Running
    /\ trace = <<>>
    /\ lookups = <<>>
    /\ batches = <<>>
    /\ handle = None
    /\ uploads_playlist_id = None
    /\ video_ids = <<>>
    /\ next_page_token = NoToken
    /\ page_tokens = <<>>
    /\ video_metadata = EmptyDict
    /\ batch_i = 1
    /\ stats = EmptyDict
    /\ idx = 1
    /\ transcript_text = None
    /\ transcript = NoFetch

\* the files of output_dir before a run: documents of some of the videos
Disks == UNION {[{FilePath(v) : v \in S} -> {OldDoc}] : S \in SUBSET Videos}

\* a call get_channel_id(identifier, api_key) against some platform
InitResolve ==
    /\ Fresh
    /\ entry = "get_channel_id"
    /\ pc = "get_channel_id"
    /\ channels \in Registries
    /\ identifier_arg \in Identifiers
    /\ identifier = identifier_arg
    /\ pages = <<<<>>>>
    /\ channel_id = None
    /\ max_results = NoLimit
    /\ skip_existing = TRUE
    /\ languages = None
    /\ disk = EmptyDict

NextResolve == GciStart \/ GciRequest1 \/ GciRequest2

SpecResolve == InitResolve /\ [][NextResolve]_vars

\* a call get_all_video_ids(channel_id, api_key, max_results) against some listing
InitEnum ==
    /\ Fresh
    /\ entry = "get_all_video_ids"
    /\ pc = "get_all_video_ids"
    /\ channels = {ChannelA}
    /\ identifier_arg = None
    /\ identifier = None
    /\ \E listing \in Listings : pages \in Layouts(listing)
    /\ channel_id \in {ChanIdA, ChanIdB}
    /\ max_results \in Limits
    /\ skip_existing = TRUE
    /\ languages = None
    /\ disk = EmptyDict

NextEnum == GetUploadsPlaylistId \/ PageRequest

SpecEnum == InitEnum /\ [][NextEnum]_vars

\* the call runs on: the interpreter takes the next step whenever there is one
SpecEnumFair == SpecEnum /\ WF_vars(NextEnum)

\* the longest identifier list handed to get_video_metadata on its own
MaxIds == 120

VideoOrder == <<"A", "B", "C">>

\* a list of n identifiers running through the videos in turn, from an offset
IdList(n, r) == [k \in 1..n |-> VideoOrder[((k + r) % 3) + 1]]

IdLists == {IdList(n, r) : n \in 0..MaxIds, r \in 0..2}

\* a call get_video_metadata(video_ids, api_key)
InitMeta ==
    /\ result = Running
    /\ trace = <<>>
    /\ lookups = <<>>
    /\ batches = <<>>
    /\ handle = None
    /\ uploads_playlist_id = None
    /\ video_ids \in IdLists
    /\ next_page_token = NoToken
    /\ page_tokens = <<>>
    /\ video_metadata = EmptyDict
    /\ batch_i = 1
    /\ stats = EmptyDict
    /\ idx = 1
    /\ transcript_text = None
    /\ transcript = NoFetch
    /\ entry = "get_video_metadata"
    /\ pc = "get_video_metadata"
    /\ channels = {ChannelA}
    /\ identifier_arg = None
    /\ identifier = None
    /\ pages = <<<<>>>>
    /\ channel_id = None
    /\ max_results = NoLimit
    /\ skip_existing = TRUE
    /\ languages = None
    /\ disk = EmptyDict

NextMeta == MetadataBatch \/ MetadataReturn

SpecMeta == InitMeta /\ [][NextMeta]_vars

\* "---\n\n## Transcript\n\n", what lines 100-101 write between header and text
TranscriptSeparator == LIT_RULE \o LIT_TRANSCRIPT

\* transcript texts handed to save_transcript: empty, plain, several lines, and
\* texts that hold the separator's characters themselves
SaveTexts ==
    {<<>>, <<"a">>, <<"a", "\n", "b">>, <<"-", "-", "-">>,
     TranscriptSeparator \o <<"z">>,
     <<"y", "\n", "\n">> \o TranscriptSeparator \o <<"z">>}

\* descriptions as the platform may return them: free text
SaveDescriptions ==
    {EMPTY, <<"d">>, <<"-", "-", "-">>,
     <<"x", "\n", "\n">> \o TranscriptSeparator \o <<"y">>,
     <<"x">> \o LIT_RULE \o <<"#", "#", " ", "T", "r", "a", "n", "s", "c", "r", "i", "p", "t">>}

\* metadata arguments: none, records as get_video_metadata builds them, and a
\* dict without a title
SaveMetadata ==
    {EmptyDict}
    \cup {[title |-> t, description |-> d, publishedAt |-> <<"p">>, channelTitle |-> c,
           duration |-> <<"P">>, viewCount |-> ZERO, likeCount |-> ZERO] :
            t \in {<<"T">>, UNKNOWN_TITLE}, d \in SaveDescriptions, c \in {EMPTY, <<"c">>}}
    \cup {[description |-> d] : d \in SaveDescriptions}

\* a call save_transcript(video_id, transcript_text, output_dir, metadata)
InitSave ==
    /\ result = Running
    /\ trace = <<>>
    /\ lookups = <<>>
    /\ batches = <<>>
    /\ handle = None
    /\ uploads_playlist_id = None
    /\ \E v \in Videos : video_ids = <<v>>
    /\ next_page_token = NoToken
    /\ page_tokens = <<>>
    /\ \E metadata \in SaveMetadata :
         video_metadata = IF metadata = EmptyDict THEN EmptyDict
                          ELSE [v \in {video_ids[1]} |-> metadata]
    /\ batch_i = 1
    /\ stats = EmptyDict
    /\ idx = 1
    /\ transcript_text \in SaveTexts
    /\ transcript = NoFetch
    /\ entry = "save_transcript"
    /\ pc = "save_transcript"
    /\ channels = {ChannelA}
    /\ identifier_arg = None
    /\ identifier = None
    /\ pages = <<<<>>>>
    /\ channel_id = None
    /\ max_results = NoLimit
    /\ skip_existing = TRUE
    /\ languages = None
    /\ disk \in {EmptyDict, [q \in {FilePath(video_ids[1])} |-> OldDoc]}

NextSave == SaveTranscriptCall

SpecSave == InitSave /\ [][NextSave]_vars

\* a call download_transcript(video_id, languages)
InitFetch ==
    /\ Fresh
    /\ entry = "download_transcript"
    /\ pc = "download_transcript"
    /\ channels = {ChannelA}
    /\ identifier_arg = None
    /\ identifier = None
    /\ pages = <<<<>>>>
    /\ channel_id = None
    /\ max_results = NoLimit
    /\ skip_existing = TRUE
    /\ languages \in LanguageLists
    /\ disk = EmptyDict

NextFetch == DownloadTranscriptCall

SpecFetch == InitFetch /\ [][NextFetch]_vars

\* a call download_channel_transcripts(channel_id, api_key, output_dir, max_videos,
\* languages, skip_existing) as main.py makes it, against some listing and some
\* files already in output_dir
Init ==
    /\ Fresh
    /\ entry = "download_channel_transcripts"
    /\ pc = "download_channel_transcripts"
    /\ channels = {ChannelA}
    /\ identifier_arg = None
    /\ identifier = None
    /\ \E listing \in Listings : pages = FullPages(listing)
    /\ channel_id \in {ChanIdA, AT \o NameAB}
    /\ max_results \in {NoLimit, 0, 2}
    /\ skip_existing \in BOOLEAN
    /\ languages = None
    /\ disk \in Disks

Next ==
    \/ DctStart
    \/ GetUploadsPlaylistId
    \/ PageRequest
    \/ MetadataBatch
    \/ MetadataReturn
    \/ LoopSkip
    \/ LoopFetch
    \/ LoopSleep
    \/ LoopSave
    \/ LoopFail
    \/ LoopEnd

Spec == Init /\ [][Next]_vars

\* the caller, main.py, is run a second time with the same arguments once a first
\* run has returned: the locals start afresh, output_dir is as the first run
\* left it, the platform is unchanged
SecondCall ==
    /\ pc = "done"
    /\ entry = "download_channel_transcripts"
    /\ result.kind = "return"
    /\ \A i \in DOMAIN trace : trace[i] # Event("call", "download_channel_transcripts")
    /\ trace' = Append(trace, Event("call", "download_channel_transcripts"))
    /\ pc' = "download_channel_transcripts"
    /\ result' = Running
    /\ uploads_playlist_id' = None
    /\ video_ids' = <<>>
    /\ next_page_token' = NoToken
    /\ video_metadata' = EmptyDict
    /\ batch_i' = 1
    /\ stats' = EmptyDict
    /\ idx' = 1
    /\ transcript_text' = None
    /\ transcript' = NoFetch
    /\ UNCHANGED <<lookups, inputs, resolverVars, page_tokens, batches, disk>>

\* two runs of download_channel_transcripts in a row over the same output_dir,
\* existing documents being skipped
InitTwoRuns ==
    /\ Fresh
    /\ entry = "download_channel_transcripts"
    /\ pc = "download_channel_transcripts"
    /\ channels = {ChannelA}
    /\ identifier_arg = None
    /\ identifier = None
    /\ \E listing \in Listings : pages = FullPages(listing)
    /\ channel_id = ChanIdA
    /\ max_results \in {NoLimit, 2}
    /\ skip_existing = TRUE
    /\ languages = None
    /\ disk \in Disks

NextTwoRuns == Next \/ SecondCall

SpecTwoRuns == InitTwoRuns /\ [][NextTwoRuns]_vars

----------------------------------------------------------------------------
(* what the claims speak of *)

\* the events of the given kinds in the trace, as positions
EventsOf(tr, kinds) == {i \in DOMAIN tr : tr[i].ev \in kinds}

IsOutcome(e) == e.ev \in {"skipping", "saved", "failed"}

\* the outcomes the loop has reported so far, one per finished iteration
Outcomes == SelectSeq(trace, IsOutcome)

\* the run of the orchestrator has returned its statistics
Completed ==
    /\ entry = "download_channel_transcripts"
    /\ pc = "done"
    /\ result.kind = "return"

Fetches(tr) == Cardinality(EventsOf(tr, {"fetch", "fetch_languages"}))
TranscriptSleeps(tr) == Cardinality({i \in DOMAIN tr : tr[i] = Event("sleep", "transcript_delay")})

\* the loop stands before the entry idx of video_ids
AtEntry == pc = "loop" /\ idx <= Len(video_ids)

\* the path of the document of a video, spelled out
DocPath(v) == v \o ".md"

Occurrences(v) == Cardinality({i \in DOMAIN video_ids : video_ids[i] = v})

----------------------------------------------------------------------------
(* C1 *)

\* C1: in every completed run of download_channel_transcripts each entry of the
\* enumerated list has exactly one outcome among skipped, downloaded and failed:
\* the outcomes reported are one per entry, in list order, and the three
\* counters count them.
C1_ExactlyOneOutcomePerEntry ==
    Completed =>
        /\ Len(Outcomes) = Len(video_ids)
        /\ \A i \in DOMAIN video_ids : Outcomes[i].of = video_ids[i]
        /\ stats.skipped = Cardinality(EventsOf(Outcomes, {"skipping"}))
        /\ stats.downloaded = Cardinality(EventsOf(Outcomes, {"saved"}))
        /\ stats.failed = Cardinality(EventsOf(Outcomes, {"failed"}))
        /\ stats.skipped + stats.downloaded + stats.failed = Len(video_ids)

\* a completed run over three entries that saw each of the three outcomes
C1_Witness ==
    /\ Completed
    /\ Len(video_ids) = 3
    /\ stats.skipped = 1 /\ stats.downloaded = 1 /\ stats.failed = 1

----------------------------------------------------------------------------
(* C2 *)

\* C2: with skip_existing set, when the loop reaches a video whose document
\* exists, the step taken calls no download_transcript, sleeps no transcript delay,
\* adds one to skipped and leaves downloaded, failed and failed_videos as they were.
C2_ExistingDocumentIsSkipped ==
    [][(AtEntry /\ skip_existing /\ DocPath(video_ids[idx]) \in DOMAIN disk) =>
        /\ idx' = idx + 1
        /\ pc' = "loop"
        /\ stats'.skipped = stats.skipped + 1
        /\ stats'.downloaded = stats.downloaded
        /\ stats'.failed = stats.failed
        /\ stats'.failed_videos = stats.failed_videos
        /\ Fetches(trace') = Fetches(trace)
        /\ TranscriptSleeps(trace') = TranscriptSleeps(trace)
        /\ disk' = disk]_vars

\* a video was skipped in a run with skip_existing set, after another was fetched
C2_Witness ==
    /\ pc = "loop"
    /\ skip_existing
    /\ idx = 3
    /\ Outcomes[2].ev = "skipping"
    /\ Fetches(trace) = 1
    /\ TranscriptSleeps(trace) = 1

----------------------------------------------------------------------------
(* C3 *)

\* the step is the call of download_transcript for the entry idx
FetchStep == AtEntry /\ Fetches(trace') = Fetches(trace) + 1

\* C3: a transcript fetch that fails for a video leads, through the delay, to
\* failed + 1, the video appended to failed_videos, no file written, and the loop
\* standing before the next entry: no step on the way ends the run.
C3_FailureIsRecordedAndLoopGoesOn ==
    [][/\ (FetchStep /\ ~transcript'.ok) =>
            (pc' = "sleep" /\ transcript_text' = None /\ result' = Running /\ disk' = disk)
       /\ (pc = "sleep" /\ transcript_text = None) =>
            (pc' = "record" /\ UNCHANGED <<transcript_text, stats, idx, result, disk>>)
       /\ (pc = "record" /\ transcript_text = None) =>
            /\ stats'.failed = stats.failed + 1
            /\ stats'.failed_videos = Append(stats.failed_videos, video_ids[idx])
            /\ stats'.downloaded = stats.downloaded
            /\ stats'.skipped = stats.skipped
            /\ disk' = disk
            /\ idx' = idx + 1
            /\ pc' = "loop"
            /\ result' = Running]_vars

\* the first of three fetches failed and the loop went on to complete
C3_Witness ==
    /\ Completed
    /\ Len(video_ids) = 3
    /\ stats.failed_videos = <<video_ids[1]>>
    /\ stats.downloaded = 2

----------------------------------------------------------------------------
(* C4 *)

\* the place before the k-th of the texts in their join by one character
RECURSIVE Offset(_, _)
Offset(texts, k) == IF k = 1 THEN 0 ELSE Offset(texts, k - 1) + Len(texts[k - 1]) + 1

\* t is the texts in their order, with one newline between neighbours
IsJoined(t, texts) ==
    /\ Len(t) = IF texts = <<>> THEN 0
                ELSE Offset(texts, Len(texts)) + Len(texts[Len(texts)])
    /\ \A k \in DOMAIN texts :
         /\ SubSeq(t, Offset(texts, k) + 1, Offset(texts, k) + Len(texts[k])) = texts[k]
         /\ k < Len(texts) => t[Offset(texts, k) + Len(texts[k]) + 1] = "\n"

\* C4: download_transcript returns in every case: None when the provider's fetch
\* raised, whatever the error, and when it succeeded the entries' texts in their
\* order joined by newlines.
C4_NoneOnAnyFailureElseJoinedText ==
    (entry = "download_transcript" /\ pc = "done") =>
        /\ result.kind = "return"
        /\ ~transcript.ok => result.val = None
        /\ transcript.ok => IsJoined(result.val, transcript.entries)

\* a network error of the provider came back as None
C4_Witness ==
    /\ entry = "download_transcript"
    /\ pc = "done"
    /\ transcript = FetchRaises("RequestException")
    /\ result = Returned(None)

----------------------------------------------------------------------------
(* C5 *)

\* C5: a video is marked failed only when download_transcript returned None;
\* every other text, the empty one included, is saved and counted as downloaded.
C5_FailedOnlyWhenAbsent ==
    (trace # <<>> /\ trace[Len(trace)].ev = "failed") => transcript_text = None

----------------------------------------------------------------------------
(* C6 *)

\* the document at the path of v was written by this run
WrittenThisRun(v) ==
    /\ DocPath(v) \in DOMAIN disk
    /\ disk[DocPath(v)] # OldDoc
    /\ StartsWith(disk[DocPath(v)], LIT_H1)

\* C6 as stated: at the end of a completed run, whatever skip_existing is, a failed
\* video has no document, a downloaded video has a document written during the run,
\* a skipped video has a document that was there before the loop reached it.
C6_FailedHasNoDocument ==
    Completed =>
        \A i \in DOMAIN video_ids :
            /\ Outcomes[i].ev = "failed" => DocPath(video_ids[i]) \notin DOMAIN disk
            /\ Outcomes[i].ev = "saved" => WrittenThisRun(video_ids[i])
            /\ Outcomes[i].ev = "skipping" => DocPath(video_ids[i]) \in DOMAIN disk

\* C6 amended: at the end of a completed run a downloaded entry has a document
\* written during the run, a skipped entry has a document that was there before the
\* loop reached it (an old one, or one an earlier entry of the same video wrote), and
\* a failed entry whose video is listed once has no document when skip_existing is
\* set, and otherwise at most the old document, unchanged.
C6_DocumentsMatchOutcomes ==
    Completed =>
        \A i \in DOMAIN video_ids :
            LET v == video_ids[i]
            IN  /\ Outcomes[i].ev = "saved" => WrittenThisRun(v)
                /\ Outcomes[i].ev = "skipping" =>
                     /\ DocPath(v) \in DOMAIN disk
                     /\ \/ disk[DocPath(v)] = OldDoc
                        \/ \E j \in 1..(i - 1) : video_ids[j] = v /\ Outcomes[j].ev = "saved"
                /\ (Outcomes[i].ev = "failed" /\ Occurrences(v) = 1) =>
                     IF skip_existing
                     THEN DocPath(v) \notin DOMAIN disk
                     ELSE DocPath(v) \in DOMAIN disk => disk[DocPath(v)] = OldDoc

\* a completed run without skip_existing in which a video that had an old
\* document failed, the document staying, and the next video was downloaded
C6_Witness ==
    /\ Completed
    /\ ~skip_existing
    /\ Len(video_ids) = 2
    /\ Outcomes[1].ev = "failed"
    /\ DocPath(video_ids[1]) \in DOMAIN disk
    /\ Outcomes[2].ev = "saved"

----------------------------------------------------------------------------
(* C7 *)

RECURSIVE Flatten(_)
Flatten(ps) == IF ps = <<>> THEN <<>> ELSE Head(ps) \o Flatten(Tail(ps))

\* C7: with max_results set to any integer >= 0, get_all_video_ids returns the first
\* max_results ids of the listing in platform order, or the whole listing when it
\* is shorter.
C7_AtMostMaxResults ==
    (entry = "get_all_video_ids" /\ pc = "done" /\ result.kind = "return"
        /\ max_results # NoLimit) =>
        result.val = SubSeq(Flatten(pages), 1, Min(max_results, Len(Flatten(pages))))

----------------------------------------------------------------------------
(* C8 *)

\* the canonical id the platform gives for a channel reference
ResolvedId(ref) ==
    IF Len(ref) = 24 /\ SubSeq(ref, 1, 2) = <<"U", "C">> THEN ref
    ELSE IF \E c \in channels : <<"@">> \o c.handle = ref
    THEN (CHOOSE c \in channels : <<"@">> \o c.handle = ref).id
    ELSE ref

----------------------------------------------------------------------------
(* C9 *)

LookedUpBy(by) == \E i \in DOMAIN lookups : lookups[i].by = by

\* C9: get_channel_id raises the not-found error only after both lookup variants
\* returned no item: the lookup by handle and the lookup by username, whichever
\* came first.
C9_NotFoundOnlyAfterBothVariants ==
    (entry = "get_channel_id" /\ pc = "done" /\ result = Raised("ValueError")) =>
        LookedUpBy("forHandle") /\ LookedUpBy("forUsername")

----------------------------------------------------------------------------
(* C10 *)

Canonical(s) == Len(s) = 24 /\ s[1] = "U" /\ s[2] = "C"

\* C10: for an identifier in canonical form (prefix UC, length 24) get_channel_id
\* issues no request and no delay, and returns the identifier as passed.
C10_CanonicalReturnedAsIs ==
    (entry = "get_channel_id" /\ Canonical(identifier_arg)) =>
        /\ trace = <<>>
        /\ lookups = <<>>
        /\ pc = "done" => result = Returned(identifier_arg)

\* a canonical identifier was returned
C10_Witness ==
    /\ entry = "get_channel_id"
    /\ Canonical(identifier_arg)
    /\ pc = "done"
    /\ result = Returned(identifier_arg)
    /\ trace = <<>>

----------------------------------------------------------------------------
(* C11 *)

\* the call of get_video_metadata on its own has returned its map
MetaReturned ==
    /\ entry = "get_video_metadata"
    /\ pc = "done"
    /\ result.kind = "return"

BulkRequests(tr) == Cardinality({i \in DOMAIN tr : tr[i] = Event("request", "videos")})

\* C11: get_video_metadata cuts its list of n identifiers into consecutive batches
\* of at most 50 in list order and issues one bulk request per batch: the b-th
\* request carries the identifiers 50(b-1)+1 .. min(50b, n), and once the call has
\* returned there were exactly ceil(n/50) requests whose batches, put end to end,
\* are the list itself, so every identifier went out in exactly one batch
C11_ConsecutiveBatchesOfFifty ==
    entry = "get_video_metadata" =>
        /\ \A b \in DOMAIN batches :
              /\ Len(batches[b]) <= 50
              /\ batches[b] = SubSeq(video_ids, 50 * (b - 1) + 1, Min(50 * b, Len(video_ids)))
        /\ BulkRequests(trace) = Len(batches)
        /\ MetaReturned =>
              /\ Len(batches) = (Len(video_ids) + 49) \div 50
              /\ Flatten(batches) = video_ids

\* 120 identifiers went out in three requests of 50, 50 and 20
C11_Witness ==
    /\ MetaReturned
    /\ Len(video_ids) = 120
    /\ BulkRequests(trace) = 3
    /\ [b \in DOMAIN batches |-> Len(batches[b])] = <<50, 50, 20>>

----------------------------------------------------------------------------
(* C12 *)

\* the videos of the listing the platform returns no record for
AbsentFromResponse == Videos \ DOMAIN VideoItems

\* the document of a video with no metadata at all: title line, id, URL, rule,
\* transcript heading, text
FallbackDoc(v, t) ==
    LIT_H1 \o <<v>> \o LIT_NLNL
    \o LIT_VIDEO_ID \o <<v>> \o LIT_NLNL
    \o LIT_VIDEO_URL \o <<v>> \o LIT_NLNL
    \o LIT_RULE \o LIT_TRANSCRIPT \o t

InLoop == entry = "download_channel_transcripts" /\ pc \in {"loop", "sleep", "record"}

\* C12: a video of the list that the bulk metadata response leaves out has no
\* entry in the metadata map, and the loop handles it like any other video: its
\* iteration ends in one of the three outcomes, the only error it can end in is
\* the file system's, and when its document is written the document carries the
\* VideoId as its title and no metadata field
C12_AbsentVideoGetsFallback ==
    [][InLoop =>
        /\ \A v \in AbsentFromResponse : v \notin DOMAIN video_metadata
        /\ (idx <= Len(video_ids) /\ video_ids[idx] \in AbsentFromResponse) =>
              /\ result'.kind = "raise" => result'.exc = "OSError" /\ pc = "record"
              /\ (pc = "record" /\ pc' = "loop") =>
                    \/ /\ trace' = Append(trace, Event("failed", video_ids[idx]))
                       /\ disk' = disk
                    \/ /\ trace'[Len(trace')] = Event("saved", video_ids[idx])
                       /\ disk'[DocPath(video_ids[idx])] =
                             FallbackDoc(video_ids[idx], transcript_text)]_vars

\* the loop has written the document of B, which the platform has no record of
C12_Witness ==
    /\ InLoop
    /\ pc = "loop"
    /\ "B" \in AbsentFromResponse
    /\ \E i \in DOMAIN trace : trace[i] = Event("saved", "B")
    /\ DocPath("B") \in DOMAIN disk
    /\ disk[DocPath("B")] = FallbackDoc("B", <<"a", "\n", "b">>)
    /\ "A" \in DOMAIN video_metadata

----------------------------------------------------------------------------
(* C13 *)

\* a platform request that was sent and raised: no delay follows it
RequestFailed(tr, i) ==
    /\ tr[i].ev = "request"
    /\ i = Len(tr) \/ tr[i + 1] # Event("sleep", "api_delay")

\* C13: in a run of the orchestrator, once the uploads lookup, a page request
\* or a bulk metadata request has failed with a transport error the run is over
\* with that error: the loop was never entered, so no transcript was fetched, no
\* outcome reported, no document written (the output directory holds what it
\* held before), and no statistics are returned
C13_TransportErrorAbortsBeforeLoop ==
    (/\ entry = "download_channel_transcripts"
     /\ \E i \in DOMAIN trace : RequestFailed(trace, i)) =>
        /\ pc = "done"
        /\ result = Raised("RequestException")
        /\ RequestFailed(trace, Len(trace))
        /\ Fetches(trace) = 0
        /\ Outcomes = <<>>
        /\ EventsOf(trace, {"write", "downloading"}) = {}
        /\ \A q \in DOMAIN disk : disk[q] = OldDoc
        /\ stats = EmptyDict

\* a bulk metadata request failed after a listing of two videos was enumerated,
\* with documents already in the output directory
C13_Witness ==
    /\ entry = "download_channel_transcripts"
    /\ result = Raised("RequestException")
    /\ trace[Len(trace)] = Event("request", "videos")
    /\ Len(video_ids) = 2
    /\ DOMAIN disk # {}

----------------------------------------------------------------------------
(* C14 *)

\* the scenario's call: the channel lists A, B, C, existing documents are skipped
ScenarioCall ==
    /\ entry = "download_channel_transcripts"
    /\ channel_id = ChanIdA
    /\ Flatten(pages) = <<"A", "B", "C">>
    /\ max_results = NoLimit
    /\ skip_existing

\* the scenario's environment: no request and no write has failed, and the
\* transcript just fetched, if any, was delivered with its two lines of text
ScenarioEnvironment ==
    /\ result \notin {Raised("RequestException"), Raised("OSError")}
    /\ pc \in {"sleep", "record"} =>
          transcript.ok /\ transcript.entries = <<<<"a">>, <<"b">>>>

ScenarioText == <<"a", "\n", "b">>

\* the document of A rendered from the platform's record of A
ScenarioDocA ==
    LIT_H1 \o <<"T">> \o LIT_NLNL
    \o LIT_VIDEO_ID \o <<"A">> \o LIT_NLNL
    \o LIT_VIDEO_URL \o <<"A">> \o LIT_NLNL
    \o LIT_CHANNEL \o <<"c">> \o LIT_NLNL
    \o LIT_PUBLISHED \o <<"p">> \o LIT_NLNL
    \o LIT_DURATION \o <<"P">> \o LIT_NLNL
    \o LIT_VIEWS \o <<"7">> \o LIT_NLNL
    \o LIT_DESCRIPTION \o <<"d">> \o LIT_NLNL
    \o LIT_RULE \o LIT_TRANSCRIPT \o ScenarioText

ScenarioOutcomes == <<Event("saved", "A"), Event("saved", "B"), Event("skipping", "C")>>

\* the statistics after n iterations of the scenario
ScenarioStats(n) ==
    [total_videos |-> 3, downloaded |-> Min(n, 2), skipped |-> IF n = 3 THEN 1 ELSE 0,
     failed |-> 0, failed_videos |-> <<>>]

\* the run is where the scenario expects it: so far A, then B were downloaded,
\* then C skipped, the documents and the statistics say so, and a run that has
\* returned has returned total 3, downloaded 2, skipped 1, failed 0, no failed video
ScenarioOnCourse ==
    LET n == Len(Outcomes)
    IN  /\ ScenarioCall
        /\ result.kind # "raise"
        /\ n <= 3
        /\ Outcomes = SubSeq(ScenarioOutcomes, 1, n)
        /\ DOMAIN disk = {DocPath("C")} \cup {DocPath(VideoOrder[k]) : k \in 1..Min(n, 2)}
        /\ disk[DocPath("C")] = OldDoc
        /\ n >= 1 => disk[DocPath("A")] = ScenarioDocA
        /\ n >= 2 => disk[DocPath("B")] = FallbackDoc("B", ScenarioText)
        /\ InLoop => stats = ScenarioStats(n)
        /\ pc = "done" => n = 3 /\ result = Returned(ScenarioStats(3))

\* C14: on the channel listing A, B, C, with platform records for A and C only,
\* a document of C in the output directory and skip_existing set, a run in which
\* the transcripts of A and B are delivered and nothing else fails stays on the
\* scenario's course at every step: A is saved with its real metadata, B with the
\* fallback document, C is skipped, and the run returns total_videos 3,
\* downloaded 2, skipped 1, failed 0 and an empty failed_videos
C14_ScenarioABC ==
    [][(ScenarioOnCourse /\ ScenarioEnvironment /\ ScenarioEnvironment') =>
            ScenarioOnCourse']_vars

\* the scenario's run has returned
C14_Witness ==
    /\ ScenarioOnCourse
    /\ Completed
    /\ DOMAIN video_metadata = {"A", "C"}
    /\ result.val.downloaded = 2
    /\ result.val.skipped = 1

----------------------------------------------------------------------------
(* C15 *)

\* the call of save_transcript on its own has returned the path
SaveReturned ==
    /\ entry = "save_transcript"
    /\ pc = "done"
    /\ result.kind = "return"

\* the document the call has written, and the arguments it was given
SavedDoc == disk[DocPath(video_ids[1])]
SavedMetadata == Get(video_metadata, video_ids[1], EmptyDict)

\* parsing a document back: the tail after the transcript separator, the
\* separator being found where a reader meets it first
AfterSeparator(doc) ==
    SubSeq(doc, Find(doc, TranscriptSeparator) + Len(TranscriptSeparator), Len(doc))

\* "---\n\n## Transcript", the separator without its closing blank line
SeparatorCore == SubSeq(TranscriptSeparator, 1, Len(TranscriptSeparator) - 2)

\* no metadata value holds the characters of the separator
NoFieldHoldsSeparator ==
    \A k \in DOMAIN SavedMetadata : ~Contains(SavedMetadata[k], SeparatorCore)

\* C15 as stated: for every transcript text and every metadata record, the
\* document written by save_transcript, parsed back, yields exactly the text
\* passed in: the text is the tail of the document after the transcript separator
C15_ParsedBackYieldsText ==
    SaveReturned => AfterSeparator(SavedDoc) = transcript_text

\* C15 amended: the document ends with the separator followed by the text,
\* character for character, so the text is the tail of the document of the
\* text's own length; the tail after the first separator is the text exactly
\* when the separator does not occur earlier in the document, and it does not
\* whenever no metadata value holds the separator's characters
C15_TextIsVerbatimTail ==
    SaveReturned =>
        LET doc == SavedDoc
            h == Len(doc) - Len(transcript_text)
        IN  /\ h >= Len(TranscriptSeparator)
            /\ SubSeq(doc, h + 1, Len(doc)) = transcript_text
            /\ SubSeq(doc, h - Len(TranscriptSeparator) + 1, h) = TranscriptSeparator
            /\ AfterSeparator(doc) = transcript_text
                  <=> Find(doc, TranscriptSeparator) = h - Len(TranscriptSeparator) + 1
            /\ NoFieldHoldsSeparator => AfterSeparator(doc) = transcript_text

\* a document written from a full metadata record and a text that itself holds
\* the separator, over an older document, parses back to the text
C15_Witness ==
    /\ SaveReturned
    /\ SavedMetadata # EmptyDict
    /\ "title" \in DOMAIN SavedMetadata
    /\ SavedMetadata.description = <<"d">>
    /\ Contains(transcript_text, TranscriptSeparator)
    /\ AfterSeparator(SavedDoc) = transcript_text
    /\ NoFieldHoldsSeparator

----------------------------------------------------------------------------
(* C16 *)

\* the call of get_all_video_ids on its own has returned its list
EnumReturned ==
    /\ entry = "get_all_video_ids"
    /\ pc = "done"
    /\ result.kind = "return"

PageRequests(tr) ==
    Cardinality({i \in DOMAIN tr : tr[i] = Event("request", "playlistItems")})

\* the items on the first k pages of the listing
ItemsUpTo(k) == Len(Flatten(SubSeq(pages, 1, k)))

\* the smallest number of pages, at least the first, whose items total at
\* least m; all pages when the listing is shorter than m
PagesNeeded(m) ==
    LET enough == {k \in 1..Len(pages) : ItemsUpTo(k) >= m}
    IN  IF enough = {} THEN Len(pages) ELSE CHOOSE k \in enough : \A j \in enough : k <= j

\* C16: a call of get_all_video_ids with max_results set that has returned has
\* issued exactly as many page requests as it takes pages to total max_results
\* items (all pages when the listing is shorter): no page is requested once
\* the accumulated count has reached max_results
C16_NoPageRequestBeyondLimit ==
    (EnumReturned /\ max_results # NoLimit) =>
        PageRequests(trace) = PagesNeeded(max_results)

----------------------------------------------------------------------------
(* C17 *)

\* the continuation token the response to a request with the given token carries
TokenAfter(token) == PageData(token).nextPageToken

\* C17: a call of get_all_video_ids without max_results sends its first page
\* request without a token and every later one with the token the response before
\* it carried, goes on as long as the responses carry a token, and returns only
\* when the last response carried none, with the identifiers of all pages in page
\* order and in-page order; the listing being a finite chain of pages, the call
\* ends
C17_PagesToTheEndInOrder ==
    /\ []((entry = "get_all_video_ids" /\ max_results = NoLimit) =>
            /\ \A k \in DOMAIN page_tokens :
                  /\ k = 1 => page_tokens[k] = NoToken
                  /\ k > 1 => /\ TokenAfter(page_tokens[k - 1]) # NoToken
                              /\ page_tokens[k] = TokenAfter(page_tokens[k - 1])
            /\ PageRequests(trace) = Len(page_tokens)
            /\ EnumReturned =>
                  /\ page_tokens # <<>>
                  /\ TokenAfter(page_tokens[Len(page_tokens)]) = NoToken
                  /\ result.val = Flatten(pages))
    /\ <>(pc = "done")

\* three pages were requested in turn and the three identifiers returned
C17_Witness ==
    /\ EnumReturned
    /\ max_results = NoLimit
    /\ page_tokens = <<NoToken, 2, 3>>
    /\ Len(result.val) = 3
    /\ Len(pages[1]) = 1

----------------------------------------------------------------------------
(* C18 *)

IsFetch(e) == e.ev \in {"fetch", "fetch_languages"}

IsTranscriptDelay(e) == e = Event("sleep", "transcript_delay")

\* C18: in a run of the orchestrator every transcript fetch is followed at once
\* by one transcript delay, whether it delivered a text or nothing, and a
\* transcript delay only ever follows a fetch; what comes after the delay is the
\* saving of the document or the recording of the failure; so the delays number
\* the fetches (one less while the delay of the last fetch is still to come), and
\* in a completed run both number total_videos minus skipped
C18_OneDelayAfterEveryFetch ==
    entry = "download_channel_transcripts" =>
        /\ \A i \in DOMAIN trace :
              /\ IsFetch(trace[i]) =>
                    IF i = Len(trace) THEN pc = "sleep"
                    ELSE IsTranscriptDelay(trace[i + 1])
              /\ IsTranscriptDelay(trace[i]) =>
                    /\ i > 1 /\ IsFetch(trace[i - 1])
                    /\ IF i = Len(trace) THEN pc = "record"
                       ELSE trace[i + 1].ev \in {"mkdir", "failed"}
              /\ trace[i].ev \in {"write", "saved", "failed"} =>
                    \E j \in 1..(i - 1) :
                        /\ IsTranscriptDelay(trace[j])
                        /\ \A k \in (j + 1)..(i - 1) : trace[k].ev \in {"mkdir", "write"}
        /\ TranscriptSleeps(trace) = Fetches(trace) - (IF pc = "sleep" THEN 1 ELSE 0)
        /\ Completed =>
              /\ Fetches(trace) = result.val.total_videos - result.val.skipped
              /\ TranscriptSleeps(trace) = result.val.total_videos - result.val.skipped

\* a completed run with a skipped video, a saved one and a failed one: two
\* fetches, two delays
C18_Witness ==
    /\ Completed
    /\ result.val.skipped = 1
    /\ result.val.downloaded = 1
    /\ result.val.failed = 1
    /\ TranscriptSleeps(trace) = 2
    /\ \E i \in DOMAIN trace : i > 1 /\ trace[i].ev = "failed" /\ IsTranscriptDelay(trace[i - 1])

----------------------------------------------------------------------------
(* C19 *)

IsApiRequest(e) == e.ev = "request" /\ e.of \in {"channels", "playlistItems", "videos"}

IsApiDelay(e) == e = Event("sleep", "api_delay")

\* C19: in a run of the orchestrator every platform request, the uploads lookup,
\* a listing page or a metadata batch, is followed at once by one api delay
\* unless it failed, and then it is the last thing the run did; an api delay
\* only ever follows a request; so between any two platform requests there is
\* a delay
C19_DelayAfterEveryApiRequest ==
    entry = "download_channel_transcripts" =>
        /\ \A i \in DOMAIN trace :
              /\ IsApiRequest(trace[i]) =>
                    IF i = Len(trace)
                    THEN pc = "done" /\ result = Raised("RequestException")
                    ELSE IsApiDelay(trace[i + 1])
              /\ IsApiDelay(trace[i]) => i > 1 /\ IsApiRequest(trace[i - 1])
        /\ \A i, j \in DOMAIN trace :
              (i < j /\ IsApiRequest(trace[i]) /\ IsApiRequest(trace[j])) =>
                  \E k \in (i + 1)..(j - 1) : IsApiDelay(trace[k])

\* a completed run that made four platform requests, lookup, two pages and a
\* metadata batch, each with its delay
C19_Witness ==
    /\ Completed
    /\ Cardinality({i \in DOMAIN trace : IsApiRequest(trace[i])}) = 4
    /\ Cardinality({i \in DOMAIN trace : IsApiDelay(trace[i])}) = 4
    /\ PageRequests(trace) = 2
    /\ BulkRequests(trace) = 1

----------------------------------------------------------------------------
(* C20 *)

\* the document at the path of v is a rendered one that ends with the separator
\* and the given text
HoldsRendered(d, v, text) ==
    /\ DocPath(v) \in DOMAIN d
    /\ d[DocPath(v)] # OldDoc
    /\ StartsWith(d[DocPath(v)], LIT_H1)
    /\ LET doc == d[DocPath(v)]
           tl == TranscriptSeparator \o text
       IN  /\ Len(doc) >= Len(tl)
           /\ SubSeq(doc, Len(doc) - Len(tl) + 1, Len(doc)) = tl

\* C20: in a run of the orchestrator a step that changes the output directory
\* changes the file <VideoId>.md of the video at hand and no other, whatever was
\* there before; and with skip_existing = false every video is fetched, the ones
\* with a document too, and a fetch that succeeded for a video with a document,
\* unless the write itself fails, leaves at that path the newly rendered
\* document with the fetched text in place of the old one
C20_SaveReplacesExistingDocument ==
    [][entry = "download_channel_transcripts" =>
        /\ disk' # disk =>
              /\ pc = "record"
              /\ DOMAIN disk' = DOMAIN disk \cup {DocPath(video_ids[idx])}
              /\ \A q \in DOMAIN disk : q # DocPath(video_ids[idx]) => disk'[q] = disk[q]
        /\ ~skip_existing =>
              /\ AtEntry =>
                    /\ pc' = "sleep"
                    /\ IsFetch(trace'[Len(trace')])
                    /\ trace'[Len(trace')].of = video_ids[idx]
              /\ (/\ pc = "record"
                  /\ transcript.ok
                  /\ DocPath(video_ids[idx]) \in DOMAIN disk
                  /\ result'.kind # "raise") =>
                    HoldsRendered(disk', video_ids[idx], Join(transcript.entries, NL))]_vars

----------------------------------------------------------------------------
(* C21 *)

\* the last thing the run did was to open or write the document of a video
WriteWasLast == trace # <<>> /\ trace[Len(trace)].ev = "write"

\* C21: in a run of the orchestrator the writing of a document either is
\* followed by the report that the document was saved or it failed, and a failed
\* write ends the run there with the error of the file system: nothing is done
\* after it, so no later video is fetched or written, the video at hand has no
\* outcome and is in none of the counters, which still add up to the videos
\* before it, and no statistics are returned
C21_WriteFailureAbortsRun ==
    entry = "download_channel_transcripts" =>
        /\ \A i \in DOMAIN trace :
              (trace[i].ev = "write" /\ i < Len(trace)) => trace[i + 1].ev = "saved"
        /\ WriteWasLast =>
              /\ pc = "done"
              /\ result = Raised("OSError")
              /\ idx <= Len(video_ids)
              /\ trace[Len(trace)].of = video_ids[idx]
              /\ Len(Outcomes) = idx - 1
              /\ stats.downloaded + stats.skipped + stats.failed = idx - 1
              /\ stats.downloaded = Cardinality(EventsOf(trace, {"saved"}))
              /\ stats.failed = Cardinality(EventsOf(trace, {"failed"}))
              /\ Len(stats.failed_videos) = stats.failed
              /\ Fetches(trace) = idx - stats.skipped

\* the write of the second of three videos failed after the first was saved
C21_Witness ==
    /\ entry = "download_channel_transcripts"
    /\ WriteWasLast
    /\ result = Raised("OSError")
    /\ idx = 2
    /\ Len(video_ids) = 3
    /\ stats.downloaded = 1

----------------------------------------------------------------------------
(* C22 *)

\* where in the trace the second run was started; 0 while the first is running
SecondCallAt ==
    LET at == {i \in DOMAIN trace : trace[i] = Event("call", "download_channel_transcripts")}
    IN  IF at = {} THEN 0 ELSE CHOOSE i \in at : TRUE

FirstRunTrace == SubSeq(trace, 1, SecondCallAt - 1)
SecondRunTrace == SubSeq(trace, SecondCallAt + 1, Len(trace))

\* the outcomes each run reported, in the order of the list
FirstOutcomes == SelectSeq(FirstRunTrace, IsOutcome)
SecondOutcomes == SelectSeq(SecondRunTrace, IsOutcome)

\* the videos a stretch of the trace has events of the given kinds for
VideosWith(tr, kinds) == {tr[i].of : i \in EventsOf(tr, kinds)}

FirstFailed == VideosWith(FirstRunTrace, {"failed"})
FirstKept == VideosWith(FirstRunTrace, {"saved", "skipping"})

Distinct(seq) == \A i, j \in DOMAIN seq : seq[i] = seq[j] => i = j

\* C22: when a first run that skips existing documents has returned over a list
\* of distinct VideoIds and a second run is started over the same list and
\* directory, the second run goes through the same list, skips every video the
\* first run saved or skipped, fetches only videos the first run recorded as
\* failed, each of them once it has returned, and writes no document of a video
\* the first run left a document of
C22_SecondRunFetchesOnlyFailed ==
    (/\ entry = "download_channel_transcripts"
     /\ skip_existing
     /\ SecondCallAt # 0
     /\ Distinct([i \in DOMAIN FirstOutcomes |-> FirstOutcomes[i].of])) =>
        /\ Len(SecondOutcomes) <= Len(FirstOutcomes)
        /\ \A i \in DOMAIN SecondOutcomes :
              /\ SecondOutcomes[i].of = FirstOutcomes[i].of
              /\ FirstOutcomes[i].ev \in {"saved", "skipping"} =>
                    SecondOutcomes[i].ev = "skipping"
              /\ FirstOutcomes[i].ev = "failed" =>
                    SecondOutcomes[i].ev \in {"saved", "failed"}
        /\ VideosWith(SecondRunTrace, {"fetch", "fetch_languages"}) \subseteq FirstFailed
        /\ VideosWith(SecondRunTrace, {"write"}) \subseteq FirstFailed
        /\ VideosWith(SecondRunTrace, {"write"}) \cap FirstKept = {}
        /\ \A v \in FirstKept : DocPath(v) \in DOMAIN disk
        /\ (pc = "done" /\ result.kind = "return") =>
              /\ video_ids = [i \in DOMAIN FirstOutcomes |-> FirstOutcomes[i].of]
              /\ VideosWith(SecondRunTrace, {"fetch", "fetch_languages"}) = FirstFailed
              /\ Fetches(SecondRunTrace) = Cardinality(FirstFailed)
              /\ result.val.skipped = Cardinality(FirstKept)

\* the second run has returned: it skipped the two videos the first run had
\* saved and skipped, and fetched again the one the first run had failed on
C22_Witness ==
    /\ SecondCallAt # 0
    /\ pc = "done"
    /\ result.kind = "return"
    /\ Len(FirstOutcomes) = 3
    /\ Distinct([i \in DOMAIN FirstOutcomes |-> FirstOutcomes[i].of])
    /\ Cardinality(FirstFailed) = 1
    /\ \E i \in DOMAIN FirstOutcomes : FirstOutcomes[i].ev = "saved"
    /\ \E i \in DOMAIN FirstOutcomes : FirstOutcomes[i].ev = "skipping"
    /\ result.val.skipped = 2
    /\ result.val.downloaded = 1

----------------------------------------------------------------------------
(* C23 *)

\* the step ends the processing of the video at idx
VideoDone == InLoop /\ idx' = idx + 1

\* exactly one of the three counters went up, by one
OneCounterUp ==
    \E c \in {"downloaded", "skipped", "failed"} :
        /\ stats'[c] = stats[c] + 1
        /\ \A d \in {"downloaded", "skipped", "failed"} \ {c} : stats'[d] = stats[d]

\* the transcript of the video at hand was fetched and came back absent
TranscriptAbsent == pc = "record" /\ transcript_text = None

\* C23: throughout the loop, with k = idx - 1 videos processed, downloaded +
\* skipped + failed = k, total_videos is the length of the list and failed_videos
\* is as long as failed says; each video processed moves exactly one counter up
\* by one; and failed_videos grows by the video at hand exactly when its
\* transcript was absent, so it lists, in the order of the list, the processed
\* videos whose transcript was absent
C23_StatisticsLoopInvariant ==
    [][InLoop =>
        /\ stats.downloaded + stats.skipped + stats.failed = idx - 1
        /\ stats.total_videos = Len(video_ids)
        /\ Len(stats.failed_videos) = stats.failed
        /\ VideoDone =>
              /\ OneCounterUp
              /\ stats'.total_videos = stats.total_videos
              /\ stats'.failed_videos =
                    IF TranscriptAbsent THEN Append(stats.failed_videos, video_ids[idx])
                    ELSE stats.failed_videos]_vars

----------------------------------------------------------------------------
(* C24 *)

\* the step reports the given outcome for the video at idx
EndsWith(outcome) ==
    /\ VideoDone
    /\ trace'[Len(trace')] = Event(outcome, video_ids[idx])

\* C24: in the loop of the orchestrator the steps that test, fetch and wait
\* leave the output directory as it is, and so does the step that ends a video
\* as skipped or as failed; the step that ends a video V as downloaded puts the
\* rendered document at <V>.md and leaves every other file, the documents of
\* all other VideoIds, as it was
C24_FrameOfVideoStep ==
    [][InLoop =>
        /\ pc \in {"loop", "sleep"} => disk' = disk
        /\ (EndsWith("skipping") \/ EndsWith("failed")) => disk' = disk
        /\ EndsWith("saved") =>
              /\ DOMAIN disk' = DOMAIN disk \cup {DocPath(video_ids[idx])}
              /\ \A q \in DOMAIN disk : q # DocPath(video_ids[idx]) => disk'[q] = disk[q]
              /\ disk'[DocPath(video_ids[idx])] # OldDoc
        /\ VideoDone =>
              EndsWith("skipping") \/ EndsWith("failed") \/ EndsWith("saved")]_vars

\* B was downloaded over its old document while the old documents of A and C
\* are still there, after a video that failed
C24_Witness ==
    /\ InLoop
    /\ pc = "loop"
    /\ trace[Len(trace)] = Event("saved", "B")
    /\ \E i \in DOMAIN trace : trace[i].ev = "failed"
    /\ DOMAIN disk = {DocPath("A"), DocPath("B"), DocPath("C")}
    /\ disk[DocPath("A")] = OldDoc
    /\ disk[DocPath("C")] = OldDoc
    /\ disk[DocPath("B")] # OldDoc

====
